---- MODULE Spec2Model ----
(***************************************************************************)
(* Shell integration installer of Open Interpreter (scripts/setup.py) and  *)
(* the hook it installs.  Text is modelled character by character: a       *)
(* string is a sequence of one-character strings, so that marker search,   *)
(* the regular-expression removal, rstrip and the newline translation of   *)
(* text-mode files are computed, not assumed.                              *)
(***************************************************************************)
EXTENDS Integers, Sequences, FiniteSets, TLC

VARIABLES
    env,          \* the SHELL environment variable
    fs,           \* the files under the home directory
    pc,           \* position of the running installer in main()
    config_path,  \* main(): config_path
    shell_type,   \* main(): shell_type
    content,      \* main(): content
    new_content,  \* main(): new_content
    response,     \* main(): response
    result,       \* how the run ended
    steps,        \* the I/O operations of this run, in order
    touched,      \* the files this run created, removed or wrote
    runs,         \* number of the current run
    fs_before,    \* fs when the current run started
    fs_init,      \* fs before the first run
    log,          \* results of the finished runs
    faults_left,  \* I/O failures the environment will still inject
    hook,         \* dialect of the hook the shell sessions have loaded
    transcript,   \* lines appended to the transcript file by the sessions
    sess,         \* each shell session: position, typed line, executions
    calls         \* invocations of the command interpreter

vars == <<env, fs, pc, config_path, shell_type, content, new_content, response,
          result, steps, touched, runs, fs_before, fs_init, log, faults_left,
          hook, transcript, sess, calls>>

(* ------------------------------ bounds -------------------------------- *)
\* prior startup-file contents are concatenations of at most MaxPieces pieces
MaxPieces == 2
\* number of installer runs in one behaviour
MaxRuns == 3
\* number of I/O failures in one behaviour of SpecFaults
MaxFaults == 1
\* number of command lines typed in one behaviour of SpecHook
MaxTyped == 2

(* --------------------------- string helpers --------------------------- *)
None == <<"N","o","n","e">>

\* s[i:i+len(pat)] == pat
IsAt(pat, s, i) ==
    /\ i >= 1
    /\ i + Len(pat) - 1 <= Len(s)
    /\ \A k \in 1..Len(pat) : s[i + k - 1] = pat[k]

\* the offsets at which pat (never empty) occurs in s
Occurrences(pat, s) == {i \in 1..Len(s) : s[i] = pat[1] /\ IsAt(pat, s, i)}

\* Python: pat in s
Contains(pat, s) == Occurrences(pat, s) # {}

Min(S) == CHOOSE x \in S : \A y \in S : x <= y

UpperCase == <<"A","B","C","D","E","F","G","H","I","J","K","L","M",
               "N","O","P","Q","R","S","T","U","V","W","X","Y","Z">>
LowerCase == <<"a","b","c","d","e","f","g","h","i","j","k","l","m",
               "n","o","p","q","r","s","t","u","v","w","x","y","z">>

\* Python: str.lower()
Lower(s) ==
    [i \in 1..Len(s) |->
        IF \E k \in 1..Len(UpperCase) : UpperCase[k] = s[i]
        THEN LowerCase[CHOOSE k \in 1..Len(UpperCase) : UpperCase[k] = s[i]]
        ELSE s[i]]

\* the characters str.rstrip() removes
Whitespace == {" ", "\t", "\n", "\r", "\f"}

\* Python: str.rstrip()
RStrip(s) ==
    LET keep == {i \in 1..Len(s) : s[i] \notin Whitespace}
    IN  IF keep = {} THEN <<>>
        ELSE SubSeq(s, 1, CHOOSE i \in keep : \A j \in keep : j <= i)

\* Text-mode read (newline=None): "\r\n" and a lone "\r" become "\n".
UniversalNewlines(s) ==
    LET idx  == [i \in 1..Len(s) |-> i]
        kept == SelectSeq(idx, LAMBDA i : ~(s[i] = "\n" /\ i > 1 /\ s[i-1] = "\r"))
    IN  [k \in 1..Len(kept) |-> IF s[kept[k]] = "\r" THEN "\n" ELSE s[kept[k]]]

\* Text-mode write (newline=None) on POSIX: "\n" is written as os.linesep = "\n".
WriteNewlines(s) == [i \in 1..Len(s) |-> s[i]]

(* ------------------------- program constants -------------------------- *)
start_marker ==
    <<"#","#","#"," ","<","o","p","e","n","i","n","t","e","r","p","r","e","t","e","r",">"," ","#","#","#">>

end_marker ==
    <<"#","#","#"," ","<","/","o","p","e","n","i","n","t","e","r","p","r","e","t","e","r",">"," ","#","#","#">>

base_script ==
    <<"#"," ","C","r","e","a","t","e"," ","l","o","g"," ","f","i","l","e"," ","i","f"," ","i","t"," ","d","o","e","s","n","'","t"," ","e","x","i","s","t","\n">> \o
    <<"t","o","u","c","h"," ","~","/",".","s","h","e","l","l","_","h","i","s","t","o","r","y","_","w","i","t","h","_","o","u","t","p","u","t","\n">> \o
    <<"\n">> \o
    <<"#"," ","F","u","n","c","t","i","o","n"," ","t","o"," ","c","a","p","t","u","r","e"," ","t","e","r","m","i","n","a","l"," ","i","n","t","e","r","a","c","t","i","o","n","\n">> \o
    <<"f","u","n","c","t","i","o","n"," ","c","a","p","t","u","r","e","_","o","u","t","p","u","t","(",")"," ","{","\n">> \o
    <<" "," "," "," ","l","o","c","a","l"," ","c","m","d","=","$","1","\n">> \o
    <<" "," "," "," ","e","c","h","o"," ","\"","u","s","e","r",":"," ","$","c","m","d","\""," ",">",">"," ","~","/",".","s","h","e","l","l","_","h","i","s","t","o","r","y","_","w","i","t","h","_","o","u","t","p","u","t","\n">> \o
    <<" "," "," "," ","e","c","h","o"," ","\"","c","o","m","p","u","t","e","r",":","\""," ",">",">"," ","~","/",".","s","h","e","l","l","_","h","i","s","t","o","r","y","_","w","i","t","h","_","o","u","t","p","u","t","\n">> \o
    <<" "," "," "," ","e","v","a","l"," ","\"","$","c","m","d","\""," ",">",">"," ","~","/",".","s","h","e","l","l","_","h","i","s","t","o","r","y","_","w","i","t","h","_","o","u","t","p","u","t"," ","2",">","&","1","\n">> \o
    <<"}","\n">> \o
    <<"\n">> \o
    <<"#"," ","C","o","m","m","a","n","d"," ","n","o","t"," ","f","o","u","n","d"," ","h","a","n","d","l","e","r"," ","t","h","a","t"," ","p","i","p","e","s"," ","c","o","n","t","e","x","t"," ","t","o"," ","i","n","t","e","r","p","r","e","t","e","r","\n">> \o
    <<"c","o","m","m","a","n","d","_","n","o","t","_","f","o","u","n","d","_","h","a","n","d","l","e","r","(",")"," ","{","\n">> \o
    <<" "," "," "," ","c","a","t"," ","~","/",".","s","h","e","l","l","_","h","i","s","t","o","r","y","_","w","i","t","h","_","o","u","t","p","u","t"," ","|"," ","i","n","t","e","r","p","r","e","t","e","r","\n">> \o
    <<" "," "," "," ","r","e","t","u","r","n"," ","0","\n">> \o
    <<"}","\n">> \o
    <<"\n">> \o
    <<"#"," ","H","o","o","k"," ","i","n","t","o"," ","p","r","e","e","x","e","c">>

zsh_suffix ==
    <<"\n">> \o
    <<"p","r","e","e","x","e","c","(",")"," ","{","\n">> \o
    <<" "," "," "," ","c","a","p","t","u","r","e","_","o","u","t","p","u","t"," ","\"","$","1","\"","\n">> \o
    <<"}","\n">>

bash_suffix ==
    <<"\n">> \o
    <<"t","r","a","p"," ","'","c","a","p","t","u","r","e","_","o","u","t","p","u","t"," ","\"","$","(","H","I","S","T","T","I","M","E","F","O","R","M","A","T","="," ","h","i","s","t","o","r","y"," ","1"," ","|"," ","s","e","d"," ","\"","s","/","^","["," ","]","*","[","0","-","9","]","*","["," ","]","*","/","/","\"",")","\""," ","'"," ","D","E","B","U","G","\n">>

(* ------------------------------ file system --------------------------- *)
ZSHRC == "~/.zshrc"
BASHRC == "~/.bashrc"
BASH_PROFILE == "~/.bash_profile"
history_file == "~/.shell_history_with_output"

StartupPaths == {ZSHRC, BASHRC, BASH_PROFILE}
Paths == StartupPaths \cup {history_file}

Absent == [exists |-> FALSE, data |-> <<>>]
File(d) == [exists |-> TRUE, data |-> d]

\* os.path.exists
Exists(f, p) == f[p].exists

(* ------------------------------ detection ----------------------------- *)
zsh == <<"z","s","h">>
bash == <<"b","a","s","h">>

NoConfig == [path |-> "None", type |-> "None"]

\* get_shell_config() falling back to zsh when SHELL names no known shell
get_shell_config_default(e, f) ==
    LET shell == Lower(IF e.set THEN e.value ELSE <<>>)
    IN  IF Contains(bash, shell) /\ ~Contains(zsh, shell)
        THEN IF Exists(f, BASHRC)
             THEN [path |-> BASHRC, type |-> "bash"]
             ELSE IF Exists(f, BASH_PROFILE)
             THEN [path |-> BASH_PROFILE, type |-> "bash"]
             ELSE NoConfig
        ELSE [path |-> ZSHRC, type |-> "zsh"]

\* get_shell_config() looking for ~/.bash_profile before ~/.bashrc
get_shell_config_profile_first(e, f) ==
    LET shell == Lower(IF e.set THEN e.value ELSE <<>>)
    IN  IF Contains(zsh, shell)
        THEN [path |-> ZSHRC, type |-> "zsh"]
        ELSE IF Contains(bash, shell)
        THEN IF Exists(f, BASH_PROFILE)
             THEN [path |-> BASH_PROFILE, type |-> "bash"]
             ELSE IF Exists(f, BASHRC)
             THEN [path |-> BASHRC, type |-> "bash"]
             ELSE NoConfig
        ELSE NoConfig

\* get_shell_config(): the startup file and the dialect, or (None, None)
get_shell_config(e, f) ==
    LET shell == Lower(IF e.set THEN e.value ELSE <<>>)
    IN  IF Contains(zsh, shell)
        THEN [path |-> ZSHRC, type |-> "zsh"]
        ELSE IF Contains(bash, shell)
        THEN IF Exists(f, BASHRC)
             THEN [path |-> BASHRC, type |-> "bash"]
             ELSE IF Exists(f, BASH_PROFILE)
             THEN [path |-> BASH_PROFILE, type |-> "bash"]
             ELSE NoConfig
        ELSE NoConfig

\* both dialects get the preexec registration
get_shell_script_one_suffix(t) ==
    IF t = "zsh" THEN base_script \o zsh_suffix
    ELSE IF t = "bash" THEN base_script \o zsh_suffix
    ELSE None

(* ------------------------------ generation ---------------------------- *)
\* get_shell_script(shell_type); an f-string renders a None result as "None"
get_shell_script(t) ==
    IF t = "zsh" THEN base_script \o zsh_suffix
    ELSE IF t = "bash" THEN base_script \o bash_suffix
    ELSE None

(* ------------------------------ patching ------------------------------ *)
\* The leftmost match of start_marker.*?end_marker (DOTALL) at or after
\* offset from: the first start marker that has an end marker after it, up
\* to the first such end marker.  <<0, 0>> when there is none.
FirstMatch(s, from) ==
    LET starts == {i \in Occurrences(start_marker, s) :
                     /\ i >= from
                     /\ \E j \in Occurrences(end_marker, s) : j >= i + Len(start_marker)}
    IN  IF starts = {} THEN <<0, 0>>
        ELSE LET i == Min(starts)
                 j == Min({k \in Occurrences(end_marker, s) : k >= i + Len(start_marker)})
             IN  <<i, j + Len(end_marker) - 1>>

\* re.sub(pattern, "", s, flags=re.DOTALL) from offset from on: every
\* non-overlapping match, scanning left to right, is deleted.
RECURSIVE SubFrom(_, _)
SubFrom(s, from) ==
    LET m == FirstMatch(s, from)
    IN  IF m[1] = 0 THEN SubSeq(s, from, Len(s))
        ELSE SubSeq(s, from, m[1] - 1) \o SubFrom(s, m[2] + 1)

\* re.sub(pattern, "", content, count=1, flags=re.DOTALL)
RemoveFirstOnly(s) ==
    LET m == FirstMatch(s, 1)
    IN  IF m[1] = 0 THEN s
        ELSE SubSeq(s, 1, m[1] - 1) \o SubSeq(s, m[2] + 1, Len(s))

RemoveExisting(s) == SubFrom(s, 1)

NL == <<"\n">>

\* new_content = f"{start_marker}\n{shell_script}\n{end_marker}\n{content.rstrip()}\n"
NewContentBlockFirst(c, t) ==
    start_marker \o NL \o get_shell_script(t) \o NL \o end_marker \o NL
                 \o RStrip(c) \o NL

\* new_content = f"{content.rstrip()}\n\n{start_marker}\n{shell_script}\n{end_marker}\n"
NewContent(c, t) ==
    RStrip(c) \o NL \o NL \o start_marker \o NL \o get_shell_script(t)
              \o NL \o end_marker \o NL

(* ------------------------------ inputs -------------------------------- *)
\* a block left by an earlier version of the installer
OldBlock == start_marker \o NL \o <<"o","l","d">> \o NL \o end_marker

Pieces == {start_marker, end_marker, OldBlock, <<"a">>, <<"\n">>, <<"\r","\n">>}

RECURSIVE ContentsUpTo(_)
ContentsUpTo(n) ==
    IF n = 0 THEN {<<>>}
    ELSE LET shorter == ContentsUpTo(n - 1)
         IN  shorter \cup {c \o p : c \in shorter, p \in Pieces}

Contents == ContentsUpTo(MaxPieces)

\* values of the SHELL environment variable
Unset == [set |-> FALSE, value |-> <<>>]
Var(v) == [set |-> TRUE, value |-> v]
ZshEnv == Var(<<"/","b","i","n","/","z","s","h">>)
BashEnv == Var(<<"/","b","i","n","/","b","a","s","h">>)
Envs ==
    { Unset,
      Var(<<>>),
      ZshEnv,
      BashEnv,
      Var(<<"/","B","I","N","/","Z","S","H">>),
      Var(<<"/","o","p","t","/","b","a","s","h","/","z","s","h">>),
      Var(<<"/","b","i","n","/","f","i","s","h">>) }

\* prior states of the transcript file
Transcripts ==
    { Absent, File(<<>>), File(<<"u","s","e","r",":"," ","l","s","\n">>) }

\* answers typed at the reinstall prompt
Responses ==
    { <<"y">>, <<"Y">>, <<"n">>, <<"y","e","s">>, <<" ","y">>, <<>> }

(* ------------------------------ initial state ------------------------- *)
Idle ==
    /\ pc = "start"
    /\ config_path = "None"
    /\ shell_type = "None"
    /\ content = <<>>
    /\ new_content = <<>>
    /\ response = <<>>
    /\ steps = <<>>
    /\ touched = {}
    /\ result = "None"

Sessions == {"s1", "s2"}

NoSession == [pc |-> "idle", line |-> "", parts |-> <<>>, k |-> 0,
              typed |-> <<>>, ran |-> <<>>, left |-> 0]

\* no shell session runs while the installer does
NoShell ==
    /\ hook = "None"
    /\ transcript = <<>>
    /\ sess = [s \in Sessions |-> NoSession]
    /\ calls = <<>>

Started ==
    /\ Idle
    /\ NoShell
    /\ runs = 1
    /\ fs_before = fs
    /\ fs_init = fs
    /\ log = <<>>

\* every prior content of the startup file, on a reliable file system
Init ==
    /\ env = ZshEnv
    /\ \E c \in Contents :
         fs = [p \in Paths |->
                 IF p = history_file THEN File(<<"u","s","e","r",":"," ","l","s","\n">>)
                 ELSE IF p = ZSHRC THEN File(c) ELSE Absent]
    /\ faults_left = 0
    /\ Started

\* every SHELL value against every combination of existing startup files
InitEnv ==
    /\ env \in Envs
    /\ \E present \in SUBSET StartupPaths, c \in {<<"a","\n">>, OldBlock}, t \in Transcripts :
         fs = [p \in Paths |->
                 IF p = history_file THEN t
                 ELSE IF p \in present THEN File(c) ELSE Absent]
    /\ faults_left = 0
    /\ Started

\* a file system whose operations may fail
InitFaults ==
    /\ env \in {ZshEnv, BashEnv}
    /\ \E c \in {<<"a","\n">>, OldBlock}, t \in Transcripts :
         fs = [p \in Paths |->
                 IF p = history_file THEN t
                 ELSE IF p \in {ZSHRC, BASH_PROFILE} THEN File(c) ELSE Absent]
    /\ faults_left = MaxFaults
    /\ Started

(* ------------------------------ main() -------------------------------- *)
locals == <<config_path, shell_type, content, new_content, response>>
shell == <<hook, transcript, sess, calls>>
frame == <<env, runs, fs_before, fs_init, log, shell>>

\* an I/O operation fails
Fault ==
    /\ faults_left > 0
    /\ faults_left' = faults_left - 1

NoFault == UNCHANGED faults_left

\* the run ends: "Installed", "Cancelled", "Failed" (no shell configuration),
\* "WriteError" (the handled write failure) or "Crashed" (an exception that
\* nothing catches)
End(r) ==
    /\ pc' = "done"
    /\ result' = r

\* open(p, "r+"): p is truncated when it exists, and is not created
OpenedExisting(f, p) == IF f[p].exists THEN [f EXCEPT ![p] = File(<<>>)] ELSE f

\* open(p, "w"): p is created, or truncated when it exists
OpenedForWriting(f, p) == [f EXCEPT ![p] = File(<<>>)]

\* response.lower() == "n"
DeclinedOnlyNo(r) == Lower(r) = <<"n">>

\* not response.lower().startswith("y")
DeclinedUnlessStartsWithY(r) == r = <<>> \/ Lower(r)[1] # "y"

\* response.lower() != "y"
Declined(r) == Lower(r) # <<"y">>

\* config_path, shell_type = get_shell_config(); return if either is None
Detect ==
    /\ pc = "start"
    /\ LET cfg == get_shell_config(env, fs)
       IN  /\ config_path' = cfg.path
           /\ shell_type' = cfg.type
           /\ IF cfg.path = "None" \/ cfg.type = "None"
              THEN End("Failed")
              ELSE pc' = "remove" /\ UNCHANGED result
    /\ steps' = Append(steps, "detect")
    /\ NoFault
    /\ UNCHANGED <<fs, content, new_content, response, touched, frame>>

\* if os.path.exists(history_file): os.remove(history_file)
RemoveHistory ==
    /\ pc = "remove"
    /\ IF Exists(fs, history_file)
       THEN /\ steps' = Append(steps, "remove")
            /\ \/ /\ fs' = [fs EXCEPT ![history_file] = Absent]
                  /\ touched' = touched \cup {history_file}
                  /\ pc' = "create"
                  /\ NoFault
                  /\ UNCHANGED result
               \/ /\ Fault                   \* OSError from os.remove
                  /\ End("Crashed")
                  /\ UNCHANGED <<fs, touched>>
       ELSE /\ pc' = "create"
            /\ NoFault
            /\ UNCHANGED <<fs, touched, steps, result>>
    /\ UNCHANGED <<locals, frame>>

\* with open(history_file, "w") as f: f.write("")
CreateHistory ==
    /\ pc = "create"
    /\ steps' = Append(steps, "create")
    /\ \/ /\ fs' = OpenedForWriting(fs, history_file)
          /\ touched' = touched \cup {history_file}
          /\ pc' = "read"
          /\ NoFault
          /\ UNCHANGED result
       \/ /\ Fault                           \* OSError from open
          /\ End("Crashed")
          /\ UNCHANGED <<fs, touched>>
    /\ UNCHANGED <<locals, frame>>

\* with open(config_path, "r") as f: content = f.read()
\* except FileNotFoundError: content = ""
ReadConfig ==
    /\ pc = "read"
    /\ steps' = Append(steps, "read")
    /\ IF Exists(fs, config_path)
       THEN \/ /\ content' = UniversalNewlines(fs[config_path].data)
               /\ pc' = "check"
               /\ NoFault
               /\ UNCHANGED result
            \/ /\ Fault                      \* OSError other than FileNotFoundError
               /\ End("Crashed")
               /\ UNCHANGED content
       ELSE /\ content' = <<>>
            /\ pc' = "check"
            /\ NoFault
            /\ UNCHANGED result
    /\ UNCHANGED <<fs, config_path, shell_type, new_content, response, touched, frame>>

\* if start_marker in content: ... ; otherwise straight on to new_content
CheckMarkers ==
    /\ pc = "check"
    /\ IF Contains(start_marker, content)
       THEN /\ pc' = "prompt"
            /\ UNCHANGED new_content
       ELSE /\ pc' = "open"
            /\ new_content' = NewContent(content, shell_type)
    /\ NoFault
    /\ UNCHANGED <<fs, config_path, shell_type, content, response, result,
                   steps, touched, frame>>

\* response = input(...); anything but "y"/"Y" cancels; otherwise the
\* existing installation is removed and new_content is built
Prompt ==
    /\ pc = "prompt"
    /\ steps' = Append(steps, "prompt")
    /\ \/ \E r \in Responses :
            /\ response' = r
            /\ NoFault
            /\ IF Declined(r)
               THEN /\ End("Cancelled")
                    /\ UNCHANGED <<content, new_content>>
               ELSE /\ content' = RemoveExisting(content)
                    /\ new_content' = NewContent(content', shell_type)
                    /\ pc' = "open"
                    /\ UNCHANGED result
       \/ /\ Fault                           \* EOFError from input
          /\ End("Crashed")
          /\ UNCHANGED <<content, new_content, response>>
    /\ UNCHANGED <<fs, config_path, shell_type, touched, frame>>

\* open(config_path, "w"): the file is created or truncated
OpenConfig ==
    /\ pc = "open"
    /\ steps' = Append(steps, "open")
    /\ \/ /\ fs' = OpenedForWriting(fs, config_path)
          /\ touched' = touched \cup {config_path}
          /\ pc' = "write"
          /\ NoFault
          /\ UNCHANGED result
       \/ /\ Fault                           \* except Exception as e
          /\ End("WriteError")
          /\ UNCHANGED <<fs, touched>>
    /\ UNCHANGED <<locals, frame>>

\* how much of the text is in the file when the write fails part-way
CutPoints(s) == {0, Len(s) - Len(end_marker) - 1, Len(s) - 1}

\* f.write(new_content) and the close that flushes it
WriteConfig ==
    /\ pc = "write"
    /\ steps' = Append(steps, "write")
    /\ \/ /\ fs' = [fs EXCEPT ![config_path] = File(WriteNewlines(new_content))]
          /\ NoFault
          /\ End("Installed")
       \/ \E n \in CutPoints(new_content) :
            /\ Fault                         \* except Exception as e
            /\ fs' = [fs EXCEPT ![config_path] =
                          File(SubSeq(WriteNewlines(new_content), 1, n))]
            /\ End("WriteError")
    /\ UNCHANGED <<locals, touched, frame>>

\* the installer is started again
Restart ==
    /\ pc = "done"
    /\ runs < MaxRuns
    /\ runs' = runs + 1
    /\ log' = Append(log, result)
    /\ fs_before' = fs
    /\ pc' = "start"
    /\ config_path' = "None"
    /\ shell_type' = "None"
    /\ content' = <<>>
    /\ new_content' = <<>>
    /\ response' = <<>>
    /\ steps' = <<>>
    /\ touched' = {}
    /\ result' = "None"
    /\ UNCHANGED <<env, fs, fs_init, faults_left, shell>>

Next ==
    \/ Detect
    \/ RemoveHistory
    \/ CreateHistory
    \/ ReadConfig
    \/ CheckMarkers
    \/ Prompt
    \/ OpenConfig
    \/ WriteConfig
    \/ Restart

Spec == Init /\ [][Next]_vars

SpecEnv == InitEnv /\ [][Next]_vars

SpecFaults == InitFaults /\ [][Next]_vars

(* ------------------------------ the hook ------------------------------ *)
\* A line of the transcript: who wrote it (the "user: $cmd" echo, the
\* "computer:" echo, or the output of the evaluated command) and for which
\* session.
Line(role, text, s) == [role |-> role, text |-> text, sid |-> s]

\* A simple command: its name, whether the shell resolves it, what it prints.
Simple(name, known, out) == [name |-> name, known |-> known, out |-> out]

\* The command lines a user types: one simple command, two simple commands
\* in one line (the first prints nothing), a command that does not exist,
\* and the builtin that ends the shell.
CommandLines ==
    { [text |-> "ls",       parts |-> <<Simple("ls", TRUE, <<"file">>)>>],
      [text |-> "true; ls", parts |-> <<Simple("true", TRUE, <<>>),
                                        Simple("ls", TRUE, <<"file">>)>>],
      [text |-> "hello",    parts |-> <<Simple("hello", FALSE, <<>>)>>],
      [text |-> "exit",     parts |-> <<Simple("exit", TRUE, <<>>)>>] }

\* eval runs the command in the shell process itself, so a command that
\* ends the shell (exit) ends it from inside capture_output
EndsShell(p) == p.name = "exit"

Exits(ps) == \E i \in DOMAIN ps : EndsShell(ps[i])

\* the simple commands of ps that eval gets to run: all of them, or those up
\* to the first that ends the shell
RanBy(ps) ==
    IF Exits(ps)
    THEN SubSeq(ps, 1, Min({i \in DOMAIN ps : EndsShell(ps[i])}))
    ELSE ps

\* what the command interpreter may print and return
Replies == {[out |-> <<>>, status |-> 0], [out |-> <<"hi">>, status |-> 1]}

\* The shell calls command_not_found_handler for a command it cannot
\* resolve.  zsh does; bash looks for command_not_found_handle, which the
\* hook does not define, and prints its own error.
HandlerInvoked(h) == h = "zsh"

\* command_not_found_handler: cat ~/.shell_history_with_output | interpreter; return 0
command_not_found_handler(s, reply) ==
    [sid |-> s, stdin |-> transcript, status |-> reply.status, returned |-> 0]

\* what running the simple commands ps prints (stdout and stderr together)
RECURSIVE Output(_, _, _)
Output(ps, h, reply) ==
    IF ps = <<>> THEN <<>>
    ELSE LET p == Head(ps)
         IN  (IF p.known THEN p.out
              ELSE IF HandlerInvoked(h) THEN reply.out
              ELSE <<"command not found">>)
             \o Output(Tail(ps), h, reply)

Unresolved(ps) == \E i \in DOMAIN ps : ~ps[i].known

\* How often the hook runs capture_output for a typed line: zsh calls
\* preexec once per line, with the line as $1; bash runs the DEBUG trap
\* before every simple command of the line.
Firings(h, parts) == IF h = "zsh" THEN 1 ELSE Len(parts)

installer == <<env, fs, pc, config_path, shell_type, content, new_content,
               response, result, steps, touched, runs, fs_before, fs_init,
               log, faults_left>>

\* the user types a command line and presses return
Type(s) ==
    /\ sess[s].pc = "idle"
    /\ sess[s].left > 0
    /\ \E c \in CommandLines :
         sess' = [sess EXCEPT ![s] =
                     [pc |-> "echo_user", line |-> c.text, parts |-> c.parts,
                      k |-> 1, typed |-> Append(sess[s].typed, c.text),
                      ran |-> <<>>, left |-> sess[s].left - 1]]
    /\ UNCHANGED <<transcript, calls, installer, hook>>

\* capture_output under a lock on the transcript, held from the first echo
\* to the end of eval
EchoUserLocked(s) ==
    /\ sess[s].pc = "echo_user"
    /\ \A t \in Sessions \ {s} : sess[t].pc \notin {"echo_computer", "eval"}
    /\ transcript' = Append(transcript, Line("user", sess[s].line, s))
    /\ sess' = [sess EXCEPT ![s].pc = "echo_computer"]
    /\ UNCHANGED <<calls, installer, hook>>

\* capture_output: echo "user: $cmd" >> ~/.shell_history_with_output
\* ($cmd is $1 of preexec, or the last history entry without its number)
EchoUser(s) ==
    /\ sess[s].pc = "echo_user"
    /\ transcript' = Append(transcript, Line("user", sess[s].line, s))
    /\ sess' = [sess EXCEPT ![s].pc = "echo_computer"]
    /\ UNCHANGED <<calls, installer, hook>>

\* capture_output: echo "computer:" >> ~/.shell_history_with_output
EchoComputer(s) ==
    /\ sess[s].pc = "echo_computer"
    /\ transcript' = Append(transcript, Line("computer", "", s))
    /\ sess' = [sess EXCEPT ![s].pc = "eval"]
    /\ UNCHANGED <<calls, installer, hook>>

\* capture_output that records the command and does not run it
EvalRecordOnly(s) ==
    /\ sess[s].pc = "eval"
    /\ sess' = [sess EXCEPT ![s].pc = "exec"]
    /\ UNCHANGED <<transcript, calls, installer, hook>>

\* capture_output: eval "$cmd" >> ~/.shell_history_with_output 2>&1
Eval(s) ==
    /\ sess[s].pc = "eval"
    /\ LET run == RanBy(sess[s].parts)
       IN  /\ \E reply \in Replies :
                /\ transcript' = transcript \o
                      [i \in DOMAIN Output(run, hook, reply) |->
                          Line("out", Output(run, hook, reply)[i], s)]
                /\ calls' = IF Unresolved(run) /\ HandlerInvoked(hook)
                            THEN Append(calls, command_not_found_handler(s, reply))
                            ELSE calls
           /\ sess' = [sess EXCEPT
                         ![s].pc = IF Exits(sess[s].parts) THEN "exited" ELSE "exec",
                         ![s].ran = sess[s].ran \o
                            [i \in DOMAIN run |-> <<run[i].name, "eval">>]]
    /\ UNCHANGED <<installer, hook>>

\* The shell itself now runs what was typed, printing to the terminal: zsh
\* the whole line after preexec, bash the simple command the DEBUG trap ran
\* before; bash then runs the trap again before the next simple command.
Exec(s) ==
    /\ sess[s].pc = "exec"
    /\ LET k     == sess[s].k
           parts == IF hook = "zsh" THEN sess[s].parts
                    ELSE <<sess[s].parts[k]>>
           more  == k < Firings(hook, sess[s].parts)
       IN  /\ \E reply \in Replies :
                calls' = IF Unresolved(parts) /\ HandlerInvoked(hook)
                         THEN Append(calls, command_not_found_handler(s, reply))
                         ELSE calls
           /\ sess' = [sess EXCEPT
                         ![s].pc = IF more THEN "echo_user" ELSE "idle",
                         ![s].k = IF more THEN k + 1 ELSE k,
                         ![s].ran = sess[s].ran \o
                            [i \in DOMAIN parts |-> <<parts[i].name, "shell">>]]
    /\ UNCHANGED <<transcript, installer, hook>>

NextHook ==
    \/ \E s \in Sessions : Type(s)
    \/ \E s \in Sessions : EchoUser(s)
    \/ \E s \in Sessions : EchoComputer(s)
    \/ \E s \in Sessions : Eval(s)
    \/ \E s \in Sessions : Exec(s)

\* the shells start after an install into an empty startup file
Installed ==
    /\ \E e \in {ZshEnv, BashEnv} :
         LET cfg == get_shell_config(e, [p \in Paths |-> File(<<>>)])
         IN  /\ env = e
             /\ hook = cfg.type
             /\ config_path = cfg.path
             /\ shell_type = cfg.type
             /\ new_content = NewContent(<<>>, cfg.type)
             /\ fs = [p \in Paths |->
                        IF p = cfg.path THEN File(NewContent(<<>>, cfg.type))
                        ELSE File(<<>>)]
    /\ pc = "done"
    /\ result = "Installed"
    /\ content = <<>>
    /\ response = <<>>
    /\ steps = <<"detect", "remove", "create", "read", "open", "write">>
    /\ touched = {config_path, history_file}
    /\ runs = MaxRuns
    /\ fs_before = [p \in Paths |-> File(<<>>)]
    /\ fs_init = fs_before
    /\ log = <<>>
    /\ faults_left = 0
    /\ transcript = <<>>
    /\ calls = <<>>

Session(n) == [NoSession EXCEPT !.left = n]

\* one shell session, in which up to MaxTyped lines are typed
InitHook ==
    /\ Installed
    /\ sess = [s \in Sessions |-> IF s = "s1" THEN Session(MaxTyped) ELSE NoSession]

\* two shell sessions, one line typed in each
InitRace ==
    /\ Installed
    /\ sess = [s \in Sessions |-> Session(1)]

SpecHook == InitHook /\ [][NextHook]_vars

SpecRace == InitRace /\ [][NextHook]_vars

(* ------------------------------ properties ---------------------------- *)
\* the startup file of the current run, before and after
Before == fs_before[config_path].data
After == fs[config_path].data

Count(pat, s) == Cardinality(Occurrences(pat, s))

\* the text of s outside every span from a start marker through the first
\* end marker after it, found by scanning offsets from the left
RECURSIVE OutsideBlocks(_)
OutsideBlocks(s) ==
    LET starts == Occurrences(start_marker, s)
    IN  IF starts = {} THEN s
        ELSE LET i    == Min(starts)
                 ends == {j \in Occurrences(end_marker, s) : j >= i + Len(start_marker)}
             IN  IF ends = {} THEN s
                 ELSE SubSeq(s, 1, i - 1)
                      \o OutsideBlocks(SubSeq(s, Min(ends) + Len(end_marker), Len(s)))

\* what an install appends after the trimmed text
Appended(t) ==
    NL \o NL \o start_marker \o NL
       \o (IF t = "zsh" THEN base_script \o zsh_suffix ELSE base_script \o bash_suffix)
       \o NL \o end_marker \o NL

\* C1: after a run that ends Installed the startup file holds exactly one
\* start marker and exactly one end marker, whatever it held before.
C1_ExactlyOneBlock ==
    result = "Installed" =>
        /\ Count(start_marker, After) = 1
        /\ Count(end_marker, After) = 1

\* C2: when the startup file holds the start marker and the answer to the
\* reinstall prompt is not y/Y, the run ends Cancelled, the startup file is
\* what it was before the run and was never opened for writing.
C2_DeclineLeavesFile ==
    /\ ( /\ pc = "done"
         /\ config_path # "None"
         /\ Contains(start_marker, Before)
         /\ response \notin {<<"y">>, <<"Y">>} )
       => result = "Cancelled"
    /\ result = "Cancelled" =>
         /\ fs[config_path] = fs_before[config_path]
         /\ config_path \notin touched
         /\ \A i \in DOMAIN steps : steps[i] \notin {"open", "write"}

C2_Witness ==
    /\ result = "Cancelled"
    /\ Contains(start_marker, Before)
    /\ response = <<"y","e","s">>

\* C3: from a startup file without a block, an install followed by accepted
\* reinstalls leaves one start marker and one end marker, and the text
\* outside the block equals the text before the first install up to
\* trailing whitespace.
C3_ReinstallIdempotent ==
    ( /\ result = "Installed"
      /\ Len(log) >= 1
      /\ \A i \in DOMAIN log : log[i] = "Installed"
      /\ OutsideBlocks(fs_init[config_path].data) = fs_init[config_path].data )
    => /\ Count(start_marker, After) = 1
       /\ Count(end_marker, After) = 1
       /\ RStrip(OutsideBlocks(After)) = RStrip(fs_init[config_path].data)

\* C4: an install changes nothing outside the managed region: the file
\* afterwards is the text that was outside every block before, trimmed of
\* trailing whitespace, followed by the inserted block.
C4_OutsidePreserved ==
    result = "Installed" =>
        After = RStrip(OutsideBlocks(Before)) \o Appended(shell_type)

\* C5: once detection has succeeded the transcript is reset (removed if
\* present, then created empty) before the startup file is read and before
\* the prompt; it exists and is empty when the run ends Installed or
\* Cancelled, whatever it held before.
C5_ResetFirst ==
    /\ \A i \in DOMAIN steps :
         steps[i] \in {"read", "prompt"} =>
            /\ \E j \in 1..(i - 1) : steps[j] = "create"
            /\ \A j \in 1..(i - 1) : steps[j] = "remove" =>
                  \E k \in (j + 1)..(i - 1) : steps[k] = "create"
    /\ pc \in {"read", "check", "prompt"} => fs[history_file] = File(<<>>)
    /\ result \in {"Installed", "Cancelled"} => fs[history_file] = File(<<>>)

C5_Witness ==
    /\ result = "Cancelled"
    /\ fs_before[history_file].exists
    /\ fs_before[history_file].data # <<>>
    /\ fs[history_file] = File(<<>>)

\* the detection matrix, read off the SHELL value and the files of the run
ShellValue == Lower(IF env.set THEN env.value ELSE <<>>)
NamesZsh == Contains(<<"z","s","h">>, ShellValue)
NamesBash == Contains(<<"b","a","s","h">>, ShellValue)
DetectionFails ==
    /\ ~NamesZsh
    /\ \/ ~NamesBash
       \/ ~fs_before[BASHRC].exists /\ ~fs_before[BASH_PROFILE].exists

\* C6: when detection fails the run ends Failed; no file was created,
\* removed or written and no prompt was asked.
C6_FailedTouchesNothing ==
    /\ (pc = "done" /\ DetectionFails) => result = "Failed"
    /\ result = "Failed" =>
         /\ fs = fs_before
         /\ touched = {}
         /\ steps = <<"detect">>

C6_Witness ==
    /\ result = "Failed"
    /\ NamesBash
    /\ fs_before[ZSHRC].exists
    /\ fs_before[history_file].exists

\* C7: no file-access failure ends the run with an exception that nothing
\* handles.
C7_NoCrash == pc = "done" => result # "Crashed"

\* C8: when the write of the startup file fails, the file holds its complete
\* old content or the complete new content.
C8_OldOrNew ==
    (pc = "done" /\ result = "WriteError") =>
        \/ fs[config_path] = fs_before[config_path]
        \/ fs[config_path] = File(new_content)

\* C9: detection follows the matrix: a value naming zsh gives ZSH with
\* ~/.zshrc, existing or not; otherwise a value naming bash gives BASH with
\* ~/.bashrc if it exists, else ~/.bash_profile if it exists, else fails;
\* any other or absent value fails; detection changes no file.
C9_DetectionMatrix ==
    steps # <<>> =>
        /\ NamesZsh => config_path = ZSHRC /\ shell_type = "zsh"
        /\ (~NamesZsh /\ NamesBash /\ fs_before[BASHRC].exists)
              => config_path = BASHRC /\ shell_type = "bash"
        /\ (~NamesZsh /\ NamesBash /\ ~fs_before[BASHRC].exists
                /\ fs_before[BASH_PROFILE].exists)
              => config_path = BASH_PROFILE /\ shell_type = "bash"
        /\ DetectionFails => config_path = "None" /\ shell_type = "None"
        /\ steps = <<"detect">> => fs = fs_before /\ touched = {}

C9_Witness ==
    /\ steps = <<"detect">>
    /\ NamesBash
    /\ ~NamesZsh
    /\ ~fs_before[BASHRC].exists
    /\ fs_before[BASH_PROFILE].exists
    /\ fs_before[ZSHRC].exists
    /\ config_path = BASH_PROFILE

\* the sessions that have typed something
Active == {s \in Sessions : sess[s].typed # <<>>}

UserLines == SelectSeq(transcript, LAMBDA l : l.role = "user")

\* C10: with one session writing, the transcript is USER, COMPUTER, output,
\* USER, COMPUTER, output, ...: one USER line per typed command, carrying
\* its text, each directly followed by one COMPUTER line.
C10_OneRecordPairPerCommand ==
    Cardinality(Active) = 1 =>
        LET s == CHOOSE x \in Active : TRUE
        IN  /\ Len(UserLines) <= Len(sess[s].typed)
            /\ sess[s].pc = "idle" => Len(UserLines) = Len(sess[s].typed)
            /\ \A i \in DOMAIN UserLines : UserLines[i].text = sess[s].typed[i]
            /\ \A i \in DOMAIN transcript :
                 /\ i = 1 => transcript[i].role = "user"
                 /\ (transcript[i].role = "user" /\ i < Len(transcript))
                       => transcript[i + 1].role = "computer"
                 /\ transcript[i].role = "computer"
                       => i > 1 /\ transcript[i - 1].role = "user"

\* the lines a session ran that the shell could not resolve
Unfound(s) == {i \in DOMAIN sess[s].ran : sess[s].ran[i][1] = "hello"}

IsPrefix(a, b) == Len(a) <= Len(b) /\ SubSeq(b, 1, Len(a)) = a

\* C11: under either dialect, whenever the shell could not resolve a typed
\* command the handler was invoked for that session with the transcript
\* written so far (the record of the command included) on the standard
\* input of interpreter, and returned 0 whatever interpreter returned.
C11_FallbackInvoked ==
    /\ \A s \in Sessions :
         Unfound(s) # {} =>
            \E j \in DOMAIN calls :
               /\ calls[j].sid = s
               /\ IsPrefix(calls[j].stdin, transcript)
               /\ \E i \in DOMAIN calls[j].stdin :
                    calls[j].stdin[i] = Line("user", "hello", s)
    /\ \A j \in DOMAIN calls : calls[j].returned = 0

Max(S) == CHOOSE x \in S : \A y \in S : y <= x

\* the length of the longest common prefix of two texts
CommonLen(a, b) ==
    LET short == IF Len(a) <= Len(b) THEN Len(a) ELSE Len(b)
    IN  Min({i \in 1..(short + 1) : i > short \/ a[i] # b[i]}) - 1

\* the script between the marker lines of the installed block
InstalledBody ==
    LET i == Max(Occurrences(start_marker, After))
        j == Max(Occurrences(end_marker, After))
    IN  SubSeq(After, i + Len(start_marker) + 1, j - 2)

OtherDialect(t) == IF t = "zsh" THEN "bash" ELSE "zsh"

\* the pieces of shell text the two dialects are told apart by
TouchTranscript == <<"t","o","u","c","h"," ","~","/",".","s","h","e","l","l","_","h","i","s","t","o","r","y","_","w","i","t","h","_","o","u","t","p","u","t","\n">>
CaptureRoutine == <<"f","u","n","c","t","i","o","n"," ","c","a","p","t","u","r","e","_","o","u","t","p","u","t","(",")"," ","{","\n">>
FallbackHandler == <<"c","o","m","m","a","n","d","_","n","o","t","_","f","o","u","n","d","_","h","a","n","d","l","e","r","(",")"," ","{","\n">>
PreexecRegistration ==
    <<"p","r","e","e","x","e","c","(",")"," ","{","\n"," "," "," "," ","c","a","p","t","u","r","e","_","o","u","t","p","u","t"," ","\"","$","1","\"","\n","}","\n">>
TrapRegistration == <<"t","r","a","p"," ","'","c","a","p","t","u","r","e","_","o","u","t","p","u","t"," ","\"","$","(">>
LastHistoryEntry == <<"h","i","s","t","o","r","y"," ","1"," ","|"," ","s","e","d"," ">>
StripSequenceNumber ==
    <<"s","e","d"," ","\"","s","/","^","["," ","]","*","[","0","-","9","]","*","["," ","]","*","/","/","\"">>
OnDebug == <<"'"," ","D","E","B","U","G","\n">>

\* C12: the script installed for one dialect and the script generated for
\* the other share a common prefix that holds the shared logic and no hook
\* registration; what follows it is, for zsh, a preexec function that
\* passes its argument to the capture routine and, for bash, a DEBUG trap
\* that passes the last history entry with its number stripped; the
\* installed script holds neither marker.
C12_PrefixAndSuffix ==
    result = "Installed" =>
        LET body   == InstalledBody
            other  == get_shell_script(OtherDialect(shell_type))
            n      == CommonLen(body, other)
            prefix == SubSeq(body, 1, n)
            suffix == SubSeq(body, n + 1, Len(body))
            rest   == SubSeq(other, n + 1, Len(other))
        IN  /\ body = get_shell_script(shell_type)
            /\ ~Contains(start_marker, body)
            /\ ~Contains(end_marker, body)
            /\ Contains(TouchTranscript, prefix)
            /\ Contains(CaptureRoutine, prefix)
            /\ Contains(FallbackHandler, prefix)
            /\ ~Contains(PreexecRegistration, prefix)
            /\ ~Contains(TrapRegistration, prefix)
            /\ suffix # <<>> /\ rest # <<>>
            /\ shell_type = "zsh" =>
                  /\ Contains(PreexecRegistration, suffix)
                  /\ ~Contains(TrapRegistration, suffix)
                  /\ Contains(TrapRegistration, rest)
            /\ shell_type = "bash" =>
                  /\ Contains(TrapRegistration, suffix)
                  /\ Contains(LastHistoryEntry, suffix)
                  /\ Contains(StripSequenceNumber, suffix)
                  /\ Contains(OnDebug, suffix)
                  /\ ~Contains(PreexecRegistration, suffix)
                  /\ Contains(PreexecRegistration, rest)

C12_Witness ==
    /\ result = "Installed"
    /\ shell_type = "bash"
    /\ config_path = BASH_PROFILE
    /\ Contains(start_marker, Before)

\* the reinstall prompt was answered and the run went on
Accepted ==
    /\ \E i \in DOMAIN steps : steps[i] = "prompt"
    /\ pc \in {"open", "write"} \/ result \in {"Installed", "WriteError"}

\* the existing installation has just been removed from the text read
Removed == Accepted /\ pc = "open"

\* the text of the startup file as the run read it
TextRead == UniversalNewlines(Before)

\* s without the span from its first start marker through the first end
\* marker after it
FirstSpanRemoved(s) ==
    LET starts == Occurrences(start_marker, s)
    IN  IF starts = {} THEN s
        ELSE LET i    == Min(starts)
                 ends == {j \in Occurrences(end_marker, s) : j >= i + Len(start_marker)}
             IN  IF ends = {} THEN s
                 ELSE SubSeq(s, 1, i - 1)
                      \o SubSeq(s, Min(ends) + Len(end_marker), Len(s))

\* C13: on an accepted reinstall the text carried to the trim-and-append
\* step is the text read without one span, from the first start marker
\* through the first end marker after it; a later span stays.
C13_OneSpanRemoved == Removed => content = FirstSpanRemoved(TextRead)

\* C13, amended: on an accepted reinstall the text carried to the
\* trim-and-append step is the text read without every span from a start
\* marker through the first end marker after it, the spans taken from the
\* left without overlap; every character outside those spans stays.
C13_EverySpanRemoved == Removed => content = OutsideBlocks(TextRead)

C13_Witness ==
    /\ Removed
    /\ Before = OldBlock \o OldBlock
    /\ content = <<>>
    /\ FirstSpanRemoved(TextRead) = OldBlock

\* session s has written a USER record and not yet its COMPUTER marker
MidRecord(s) == sess[s].pc = "echo_computer"

\* C14: nothing makes the appends of one command atomic: while one session
\* is between its USER record and its COMPUTER marker, every append another
\* session has reached can be made, so records of two sessions interleave
\* in any order.
C14_AppendsInterleave ==
    \A s \in Sessions : \A t \in Sessions \ {s} :
        MidRecord(s) =>
            /\ sess[t].pc = "echo_user" => ENABLED EchoUser(t)
            /\ sess[t].pc = "echo_computer" => ENABLED EchoComputer(t)
            /\ sess[t].pc = "eval" => ENABLED Eval(t)

\* a USER record of one session directly followed by a record of the other
C14_Witness ==
    \E i \in DOMAIN transcript :
        /\ i < Len(transcript)
        /\ transcript[i].role = "user"
        /\ transcript[i + 1].sid # transcript[i].sid
        /\ \E j \in (i + 2)..Len(transcript) :
             /\ transcript[j].role = "computer"
             /\ transcript[j].sid = transcript[i].sid

\* the reinstall prompt was answered in the current run
Answered == \E i \in DOMAIN steps : steps[i] = "prompt"

\* C15: of the answers to the reinstall prompt only "y" and "Y" let the
\* run go on; "yes", " y", the empty answer and every other answer end it
\* Cancelled at once, the startup file being what it was before the run.
C15_OnlySingleLetterAccepted ==
    Answered =>
        /\ response \in {<<"y">>, <<"Y">>} <=> result # "Cancelled"
        /\ response \in {<<"y">>, <<"Y">>} => pc \in {"open", "write"} \/ result = "Installed"
        /\ response \notin {<<"y">>, <<"Y">>} =>
              /\ pc = "done"
              /\ steps[Len(steps)] = "prompt"
              /\ After = Before
              /\ new_content = <<>>

C15_Witness ==
    /\ Answered
    /\ response = <<" ","y">>
    /\ result = "Cancelled"
    /\ After = Before

\* the names of the simple commands of what session s typed last
LastLine(s) == [i \in DOMAIN sess[s].parts |-> sess[s].parts[i].name]

RanAs(names, how) == [i \in DOMAIN names |-> <<names[i], how>>]

\* the output lines session s has in the transcript
OutLines(s) == SelectSeq(transcript, LAMBDA l : l.role = "out" /\ l.sid = s)

\* the lines session s typed that print "file" (ls does, once)
Listings(s) == SelectSeq(sess[s].typed, LAMBDA t : t \in {"ls", "true; ls"})

\* C16: under the zsh hook, once a typed line is done with, each of its
\* commands has been run twice, first by the eval of the capture routine
\* and then by the shell.
C16_RunTwice ==
    hook = "zsh" =>
        \A s \in Active :
            sess[s].pc \in {"idle", "exited"} =>
                sess[s].ran = RanAs(LastLine(s), "eval") \o RanAs(LastLine(s), "shell")

\* C16, amended: under the zsh hook a typed line whose evaluation by the
\* capture routine does not end the shell is run twice, first by that eval
\* (its output going to the transcript, once) and then by the shell; the
\* shell never runs a command the eval has not run before; a line that ends
\* the shell (exit) is run once, by the eval, and the session is over.
C16_RunTwiceUnlessShellEnds ==
    hook = "zsh" =>
        \A s \in Active :
            /\ sess[s].pc = "idle" =>
                  /\ sess[s].ran = RanAs(LastLine(s), "eval") \o RanAs(LastLine(s), "shell")
                  /\ Len(SelectSeq(OutLines(s), LAMBDA l : l.text = "file")) = Len(Listings(s))
            /\ sess[s].pc = "exec" => sess[s].ran = RanAs(LastLine(s), "eval")
            /\ sess[s].pc = "exited" =>
                  /\ sess[s].line = "exit"
                  /\ sess[s].ran = RanAs(LastLine(s), "eval")
            /\ \A i \in DOMAIN sess[s].ran :
                  sess[s].ran[i][2] = "shell" =>
                     \E j \in 1..(i - 1) :
                        sess[s].ran[j] = <<sess[s].ran[i][1], "eval">>

C16_Witness ==
    /\ hook = "zsh"
    /\ sess["s1"].pc = "idle"
    /\ sess["s1"].typed = <<"ls", "true; ls">>
    /\ sess["s1"].ran = <<<<"true", "eval">>, <<"ls", "eval">>,
                          <<"true", "shell">>, <<"ls", "shell">>>>

\* the block as it stands in the file: both marker lines and the script
HookBlock(t) == start_marker \o NL \o get_shell_script(t) \o NL \o end_marker \o NL

\* C17: after a run that ends Installed the startup file ends with the hook
\* block: its last start marker opens the block just written, its last end
\* marker is followed by one newline and nothing else, and all the text kept
\* from before the run (text that followed an old block included) stands
\* before the block.
C17_BlockLast ==
    result = "Installed" =>
        LET n    == Len(After) - Len(HookBlock(shell_type))
            kept == SubSeq(After, 1, n)
        IN  /\ n >= 0
            /\ SubSeq(After, n + 1, Len(After)) = HookBlock(shell_type)
            /\ Max(Occurrences(start_marker, After)) = n + 1
            /\ Max(Occurrences(end_marker, After)) = Len(After) - Len(end_marker)
            /\ After[Len(After)] = "\n"
            /\ kept = RStrip(OutsideBlocks(TextRead)) \o NL \o NL

C17_Witness ==
    /\ result = "Installed"
    /\ Accepted
    /\ Before = OldBlock \o <<"a">>
    /\ After = <<"a">> \o NL \o NL \o HookBlock("zsh")
====
